---- MODULE Spec2Model ----
(***************************************************************************)
(* A model of qemubox: a directory-backed registry of virtual machines     *)
(* (src/main.rs) and the synthesis of the qemu-system-x86_64 argument list *)
(* from a machine's machine.toml (src/config.rs).                          *)
(*                                                                         *)
(* Every invocation of the program is one process; the only state the      *)
(* invocations share is the file system under the machines directory.      *)
(* Each system call of the source (read_dir, create_dir, write, spawn,     *)
(* wait, the unlink and rmdir calls of remove_dir_all) is one step.        *)
(***************************************************************************)
EXTENDS Integers, Sequences, FiniteSets, TLC

\* ------------------------------------------------------------------ bounds

\* The number of invocations (and external edits) started in one behaviour.
MaxOps == 3

Procs == {"p1", "p2"}
Names == {"vm1", "vm2"}
DiskSizes == {2048, 4096}
ExitCodes == {0, 1}

\* ------------------------------------------------------------------- paths

\* A path is the sequence of its components; an absolute path starts with
\* the root component "/".
IsAbsolute(path) == Len(path) > 0 /\ path[1] = "/"

\* Path::join: an absolute argument replaces the receiver.
Join(base, path) == IF IsAbsolute(path) THEN path ELSE base \o path

RECURSIVE ToStringLossy(_)
\* Path::to_string_lossy: the components separated by "/".
ToStringLossy(path) ==
    IF Len(path) = 0 THEN ""
    ELSE IF Len(path) = 1 THEN path[1]
    ELSE IF path[1] = "/" THEN "/" \o ToStringLossy(Tail(path))
    ELSE path[1] \o "/" \o ToStringLossy(Tail(path))

Home == <<"/", "home", "user">>

MachinesDir == Join(Home, <<".local", "share", "qemubox", "machines">>)

\* ------------------------------------------------------------------ config

VideoOption == {"Std", "VirtIo", "Qxl", "None"}

DefaultCpus == 2
DefaultMemory == 2048

\* impl Default for Machine
DefaultMachine ==
    [disk |-> <<".", "disk.qcow2">>, cpus |-> DefaultCpus,
     memory |-> DefaultMemory, kvm |-> TRUE, uefi |-> FALSE, video |-> "Std"]

\* #[derive(Default)] for Config
DefaultConfig == [machine |-> DefaultMachine]

MachineKeys == {"disk", "cpus", "memory", "kvm", "uefi", "video"}

\* #[serde(rename_all = "lowercase")] on VideoOption
VideoToml(video) ==
    CASE video = "Std" -> "std"
      [] video = "VirtIo" -> "virtio"
      [] video = "Qxl" -> "qxl"
      [] video = "None" -> "none"

\* toml::to_string_pretty: the document of a Config, a [machine] table with
\* one key per field and the video variant in lower case.
ToToml(config) ==
    [machine |-> [config.machine EXCEPT !.video = VideoToml(config.machine.video)]]

\* toml::from_str::<Config> accepts a document when it has the [machine]
\* table and nothing else, the table has every field of Machine and no other
\* key (deny_unknown_fields), and video names a variant.
TomlParses(doc) ==
    /\ DOMAIN doc = {"machine"}
    /\ DOMAIN doc.machine = MachineKeys
    /\ \E v \in VideoOption : VideoToml(v) = doc.machine.video

\* The Config toml::from_str yields for a document that parses.
FromToml(doc) ==
    [machine |-> [doc.machine EXCEPT
        !.video = CHOOSE v \in VideoOption : VideoToml(v) = doc.machine.video]]

\* Documents an external editor may leave in machine.toml: a valid one with
\* every optional part switched on, one with a key outside the schema, and
\* one whose video value names no variant.
EditedDocs ==
    { [machine |-> [disk |-> <<"/", "srv", "img.qcow2">>, cpus |-> 4,
                    memory |-> 4096, kvm |-> FALSE, uefi |-> TRUE,
                    video |-> "none"]],
      [machine |-> [disk |-> <<".", "disk.qcow2">>, cpus |-> 2,
                    memory |-> 2048, kvm |-> TRUE, uefi |-> FALSE,
                    video |-> "std", gpu |-> "on"]],
      [machine |-> [disk |-> <<".", "disk.qcow2">>, cpus |-> 2,
                    memory |-> 2048, kvm |-> TRUE, uefi |-> FALSE,
                    video |-> "vga"]] }

\* ------------------------------------------------------- command synthesis

\* Option<T>: the empty sequence is None, <<x>> is Some(x).
None == <<>>
Some(x) == <<x>>

\* The -vga arguments of one video option.
VideoArgs(video) ==
    CASE video = "Std" -> <<"-vga", "std">>
      [] video = "VirtIo" -> <<"-vga", "virtio">>
      [] video = "Qxl" -> <<"-vga", "qxl">>
      [] video = "None" -> <<"-vga", "none", "-nographic">>

OvmfCode ==
    "if=pflash,format=raw,readonly=on,file=/usr/share/edk2-ovmf/x64/OVMF_CODE.fd"

\* A synthesis that pushes the CD-ROM image after the disk.
ConstructCdRomLast(config, containing_dir_path, cd_rom) ==
    LET m == config.machine
        disk_path == IF IsAbsolute(m.disk) THEN m.disk
                     ELSE Join(containing_dir_path, m.disk)
        ovmf_vars_path ==
            "if=pflash,format=raw,file="
                \o ToStringLossy(Join(containing_dir_path, <<"ovmf_vars.fd">>))
    IN  <<"-smp", ToString(m.cpus)>>
          \o <<"-m", ToString(m.memory) \o "M">>
          \o (IF m.kvm THEN <<"-enable-kvm">> ELSE <<>>)
          \o (IF m.uefi
              THEN <<"-drive",
                     "if=pflash,format=raw,readonly=on,file=/usr/share/edk2-ovmf/x64/OVMF_CODE.fd",
                     "-drive", ovmf_vars_path>>
              ELSE <<>>)
          \o VideoArgs(m.video)
          \o <<ToStringLossy(disk_path)>>
          \o (IF cd_rom # None THEN <<"-cdrom", ToStringLossy(cd_rom[1])>>
              ELSE <<>>)

\* Config::construct_launch_command: the arguments given to
\* qemu-system-x86_64, in the order the source pushes them.
ConstructLaunchCommand(config, containing_dir_path, cd_rom) ==
    LET m == config.machine
        disk_path == IF IsAbsolute(m.disk) THEN m.disk
                     ELSE Join(containing_dir_path, m.disk)
        ovmf_vars_path ==
            "if=pflash,format=raw,file="
                \o ToStringLossy(Join(containing_dir_path, <<"ovmf_vars.fd">>))
    IN  <<"-smp", ToString(m.cpus)>>
          \o <<"-m", ToString(m.memory) \o "M">>
          \o (IF m.kvm THEN <<"-enable-kvm">> ELSE <<>>)
          \o (IF m.uefi THEN <<"-drive", OvmfCode, "-drive", ovmf_vars_path>>
              ELSE <<>>)
          \o VideoArgs(m.video)
          \o (IF cd_rom # None THEN <<"-cdrom", ToStringLossy(cd_rom[1])>>
              ELSE <<>>)
          \o <<ToStringLossy(disk_path)>>

\* ------------------------------------------------------------------- state

VARIABLES
    env,        \* "ok", "nohome" (no home directory) or "noroot" (the machines
                \* directory cannot be read)
    fs,         \* the machines directory: name -> [kind, files]
    imgJobs,    \* the qemu-img processes spawned and still running
    pc,         \* each invocation's position
    cmd,        \* each invocation's command line
    res,        \* how each invocation ended: [tag, detail]
    listed,     \* the machine names the invocation's get_machines returned
    removed,    \* the files remove_dir_all has unlinked so far
    vmArgs,     \* the arguments of the hypervisor the invocation spawned
    vmExit,     \* the exit code wait() returned, None before
    started,    \* invocations and edits started so far
    synConfig,  \* command synthesis on its own: the configuration,
    synDir,     \*   the containing directory,
    synCdRom,   \*   the CD-ROM image, None without one,
    synArgs     \*   and the arguments synthesised, None before

regVars == <<env, fs, imgJobs, pc, cmd, res, listed, removed, vmArgs, vmExit,
             started>>
synVars == <<synConfig, synDir, synCdRom, synArgs>>
vars == <<regVars, synVars>>

\* ------------------------------------------------------------- file system

ConfigFile == "machine.toml"
DiskFile == "disk.qcow2"

\* A directory's files: a function from the names present to their contents.
NoFiles == [f \in {} |-> 0]
WriteFile(files, f, content) ==
    [g \in DOMAIN files \cup {f} |-> IF g = f THEN content ELSE files[g]]
Unlink(files, f) == [g \in DOMAIN files \ {f} |-> files[g]]

Absent == [kind |-> "absent", files |-> NoFiles]
PlainFile == [kind |-> "file", files |-> NoFiles]
EmptyDir == [kind |-> "dir", files |-> NoFiles]

\* The names read_dir yields.
Entries(f) == {n \in Names : f[n].kind # "absent"}

MachinePath(name) == Join(MachinesDir, <<name>>)

\* ----------------------------------------------------------------- results

Ok == [tag |-> "Ok", detail |-> ""]
Err(e) == [tag |-> e, detail |-> ""]
\* Error::Deserialize(config_path, _)
Deserialize(config_path) ==
    [tag |-> "Deserialize", detail |-> ToStringLossy(config_path)]
\* An unwrap() of an Err, or todo!(): the process aborts at `site`.
Panic(site) == [tag |-> "panic", detail |-> site]
NoResult == [tag |-> "running", detail |-> ""]

\* -------------------------------------------------------------- the registry

\* get_machines_dir: the error it returns, "ok" without one.
GetMachinesDir ==
    CASE env = "nohome" -> "NoHomeDirectory"
      [] env = "noroot" -> "ReadMachinesDirectoryFail"
      [] OTHER -> "ok"

\* The orders read_dir may yield the entries in.
ScanOrders(f) ==
    {o \in [1..Cardinality(Entries(f)) -> Entries(f)] :
        \A i, j \in DOMAIN o : i # j => o[i] # o[j]}

RECURSIVE ScanFromSkipsBad(_, _, _, _)
\* A scan that passes over a machine.toml that does not parse.
ScanFromSkipsBad(f, order, i, machines) ==
    IF i > Len(order) THEN [result |-> Ok, machines |-> machines]
    ELSE LET item == order[i]
         IN  IF /\ f[item].kind = "dir"
                /\ ConfigFile \in DOMAIN f[item].files
                /\ TomlParses(f[item].files[ConfigFile])
             THEN ScanFromSkipsBad(f, order, i + 1,
                      Append(machines,
                             [name |-> item,
                              config |-> FromToml(f[item].files[ConfigFile])]))
             ELSE ScanFromSkipsBad(f, order, i + 1, machines)

RECURSIVE ScanFromListsAll(_, _, _, _)
\* A scan that takes a subdirectory without machine.toml for a machine with
\* the default configuration.
ScanFromListsAll(f, order, i, machines) ==
    IF i > Len(order) THEN [result |-> Ok, machines |-> machines]
    ELSE LET item == order[i]
             config_path == Join(MachinePath(item), <<ConfigFile>>)
         IN  IF f[item].kind # "dir"
             THEN ScanFromListsAll(f, order, i + 1, machines)
             ELSE IF ConfigFile \notin DOMAIN f[item].files
             THEN ScanFromListsAll(f, order, i + 1,
                      Append(machines, [name |-> item, config |-> DefaultConfig]))
             ELSE IF TomlParses(f[item].files[ConfigFile])
             THEN ScanFromListsAll(f, order, i + 1,
                      Append(machines,
                             [name |-> item,
                              config |-> FromToml(f[item].files[ConfigFile])]))
             ELSE [result |-> Deserialize(config_path), machines |-> <<>>]

RECURSIVE ScanFrom(_, _, _, _)
\* The loop of get_machines from item i of the scan: a subdirectory whose
\* machine.toml can be read is pushed when it parses and ends the scan with
\* Error::Deserialize when it does not; every other item is passed over.
ScanFrom(f, order, i, machines) ==
    IF i > Len(order) THEN [result |-> Ok, machines |-> machines]
    ELSE LET item == order[i]
             config_path == Join(MachinePath(item), <<ConfigFile>>)
         IN  IF f[item].kind = "dir" /\ ConfigFile \in DOMAIN f[item].files
             THEN IF TomlParses(f[item].files[ConfigFile])
                  THEN ScanFrom(f, order, i + 1,
                           Append(machines,
                                  [name |-> item,
                                   config |-> FromToml(f[item].files[ConfigFile])]))
                  ELSE [result |-> Deserialize(config_path), machines |-> <<>>]
             ELSE ScanFrom(f, order, i + 1, machines)

\* get_machines: the result and, when Ok, the machines found.
GetMachines(f, order) ==
    IF GetMachinesDir # "ok"
    THEN [result |-> Err(GetMachinesDir), machines |-> <<>>]
    ELSE ScanFrom(f, order, 1, <<>>)

\* The names of a Vec<Machine>, in its order.
MachineNames(machines) == [i \in DOMAIN machines |-> machines[i].name]

Range(seq) == {seq[i] : i \in DOMAIN seq}

\* ------------------------------------------------------------- invocations

NoCommand == [op |-> "none", name |-> "", disk_size |-> 0, yes |-> FALSE]

\* The command lines main dispatches on: ls, new, and machine with run or
\* remove (main.rs passes run no CD-ROM image).
Commands ==
    {[NoCommand EXCEPT !.op = "ls"]}
    \cup {[NoCommand EXCEPT !.op = "new", !.name = n, !.disk_size = d] :
            n \in Names, d \in DiskSizes}
    \cup {[NoCommand EXCEPT !.op = "run", !.name = n] : n \in Names}
    \cup {[NoCommand EXCEPT !.op = "remove", !.name = n, !.yes = y] :
            n \in Names, y \in BOOLEAN}

\* main's dispatch: where the command's function starts.
EntryPoint(c) ==
    CASE c.op = "ls" -> "ls"
      [] c.op = "new" -> "new_scan"
      [] c.op \in {"run", "remove"} -> "machine"

\* main: a process starts (or starts again, once its last invocation ended)
\* with command line c.
Start(p, c) ==
    /\ pc[p] \in {"idle", "done"}
    /\ started < MaxOps
    /\ started' = started + 1
    /\ pc' = [pc EXCEPT ![p] = EntryPoint(c)]
    /\ cmd' = [cmd EXCEPT ![p] = c]
    /\ res' = [res EXCEPT ![p] = NoResult]
    /\ listed' = [listed EXCEPT ![p] = <<>>]
    /\ removed' = [removed EXCEPT ![p] = {}]
    /\ vmArgs' = [vmArgs EXCEPT ![p] = <<>>]
    /\ vmExit' = [vmExit EXCEPT ![p] = None]
    /\ UNCHANGED <<env, fs, imgJobs, synVars>>

\* The invocation returns r to main.
Return(p, r) ==
    /\ pc' = [pc EXCEPT ![p] = "done"]
    /\ res' = [res EXCEPT ![p] = r]

\* ls: get_machines, then the names are printed.
Ls(p) ==
    /\ pc[p] = "ls"
    /\ \E order \in ScanOrders(fs) :
         LET got == GetMachines(fs, order)
         IN  /\ Return(p, got.result)
             /\ listed' = [listed EXCEPT ![p] = MachineNames(got.machines)]
    /\ UNCHANGED <<env, fs, imgJobs, cmd, removed, vmArgs, vmExit, started,
                   synVars>>

\* ------------------------------------------------------------- new_machine

\* A guard on validity: only a directory holding machine.toml takes the name.
NameTakenByMachine(f, name) ==
    f[name].kind = "dir" /\ ConfigFile \in DOMAIN f[name].files

\* A create_dir that reuses a directory already there (create_dir_all).
CreateDirAll(f, name) ==
    IF f[name].kind = "file" THEN [ok |-> FALSE, fs |-> f]
    ELSE IF f[name].kind = "dir" THEN [ok |-> TRUE, fs |-> f]
    ELSE [ok |-> TRUE, fs |-> [f EXCEPT ![name] = EmptyDir]]

\* The loop of new_machine over read_dir: whether an entry of any kind has
\* the name.
NameTaken(f, name) == name \in Entries(f)

\* std::fs::create_dir: fails when the path exists, whatever is there.
CreateDir(f, name) ==
    IF f[name].kind # "absent" THEN [ok |-> FALSE, fs |-> f]
    ELSE [ok |-> TRUE, fs |-> [f EXCEPT ![name] = EmptyDir]]

\* new_machine, to the end of its scan of the machines directory.
NewScan(p) ==
    /\ pc[p] = "new_scan"
    /\ IF GetMachinesDir # "ok" THEN Return(p, Err(GetMachinesDir))
       ELSE IF NameTaken(fs, cmd[p].name)
            THEN Return(p, Err("NewMachineDirectoryExists"))
       ELSE pc' = [pc EXCEPT ![p] = "new_mkdir"] /\ UNCHANGED res
    /\ UNCHANGED <<env, fs, imgJobs, cmd, listed, removed, vmArgs, vmExit,
                   started, synVars>>

\* new_machine: create_dir of the machine's directory.
NewMkdir(p) ==
    /\ pc[p] = "new_mkdir"
    /\ LET made == CreateDir(fs, cmd[p].name)
       IN  IF made.ok
           THEN /\ fs' = made.fs
                /\ pc' = [pc EXCEPT ![p] = "new_write"]
                /\ UNCHANGED res
           ELSE /\ Return(p, Err("CreateMachineDirectoryFail"))
                /\ UNCHANGED fs
    /\ UNCHANGED <<env, imgJobs, cmd, listed, removed, vmArgs, vmExit, started,
                   synVars>>

\* new_machine: the default configuration is written to machine.toml. The
\* write fails when the directory is gone, and may fail for any other reason
\* the system has (io_ok).
NewWrite(p) ==
    /\ pc[p] = "new_write"
    /\ \E io_ok \in BOOLEAN :
         LET name == cmd[p].name
         IN  IF io_ok /\ fs[name].kind = "dir"
             THEN /\ fs' = [fs EXCEPT ![name].files =
                               WriteFile(@, ConfigFile, ToToml(DefaultConfig))]
                  /\ pc' = [pc EXCEPT ![p] = "new_spawn"]
                  /\ UNCHANGED res
             ELSE /\ Return(p, Err("WriteMachineTomlFail"))
                  /\ UNCHANGED fs
    /\ UNCHANGED <<env, imgJobs, cmd, listed, removed, vmArgs, vmExit, started,
                   synVars>>

\* The qemu-img process new_machine spawns for a machine.
ImgJob(c) == [name |-> c.name, disk_size |-> c.disk_size]

\* new_machine: qemu-img is spawned and new_machine returns Ok(()) without
\* waiting for it; a spawn that fails is unwrapped.
NewSpawn(p) ==
    /\ pc[p] = "new_spawn"
    /\ \E spawned \in BOOLEAN :
         IF spawned
         THEN /\ imgJobs' = imgJobs \cup {ImgJob(cmd[p])}
              /\ Return(p, Ok)
         ELSE /\ Return(p, Panic("qemu-img spawn unwrap"))
              /\ UNCHANGED imgJobs
    /\ UNCHANGED <<env, fs, cmd, listed, removed, vmArgs, vmExit, started,
                   synVars>>

\* A running qemu-img writes the disk image when the machine's directory is
\* there, and fails without effect when it is not; either way it exits.
QemuImg(job) ==
    /\ job \in imgJobs
    /\ imgJobs' = imgJobs \ {job}
    /\ fs' = IF fs[job.name].kind = "dir"
             THEN [fs EXCEPT ![job.name].files =
                      WriteFile(@, DiskFile, job.disk_size)]
             ELSE fs
    /\ UNCHANGED <<env, pc, cmd, res, listed, removed, vmArgs, vmExit, started,
                   synVars>>

\* ----------------------------------------------------------------- machine

\* machines.iter().find(|m| m.name == name): Some(machine) or None.
Find(machines, name) ==
    IF \E i \in DOMAIN machines : machines[i].name = name
    THEN Some(machines[CHOOSE i \in DOMAIN machines : machines[i].name = name])
    ELSE None

\* A remove that does not look at --yes.
RemoveAlways(c) == TRUE

\* `if yes` of MachineCommand::Remove: whether the directory is removed.
RemoveConfirmed(c) == c.yes

\* display_warning of the unconfirmed remove, which names the directory.
Warned(dir_to_remove) == [tag |-> "Ok", detail |-> ToStringLossy(dir_to_remove)]

\* machine, to its match on the command: get_machines, the lookup of the name
\* and, for run, the construction of the launch command.
Machine(p) ==
    /\ pc[p] = "machine"
    /\ \E order \in ScanOrders(fs) :
         LET got == GetMachines(fs, order)
             found == Find(got.machines, cmd[p].name)
         IN  IF got.result # Ok
             THEN /\ Return(p, Panic("todo!()"))
                  /\ UNCHANGED <<listed, vmArgs>>
             ELSE /\ listed' = [listed EXCEPT ![p] = MachineNames(got.machines)]
                  /\ IF found = None
                     THEN /\ Return(p, Err("NoMachineByName"))
                          /\ UNCHANGED vmArgs
                     ELSE IF cmd[p].op = "run"
                     THEN /\ vmArgs' = [vmArgs EXCEPT ![p] =
                                 ConstructLaunchCommand(found[1].config,
                                     MachinePath(found[1].name), None)]
                          /\ pc' = [pc EXCEPT ![p] = "run_spawn"]
                          /\ UNCHANGED res
                     ELSE IF RemoveConfirmed(cmd[p])
                     THEN /\ pc' = [pc EXCEPT ![p] = "remove_dir_all"]
                          /\ UNCHANGED <<res, vmArgs>>
                     ELSE /\ Return(p, Warned(MachinePath(found[1].name)))
                          /\ UNCHANGED vmArgs
    /\ UNCHANGED <<env, fs, imgJobs, cmd, removed, vmExit, started, synVars>>

\* run: the hypervisor is spawned; a spawn that fails is unwrapped.
RunSpawn(p) ==
    /\ pc[p] = "run_spawn"
    /\ \E spawned \in BOOLEAN :
         IF spawned
         THEN pc' = [pc EXCEPT ![p] = "run_wait"] /\ UNCHANGED res
         ELSE Return(p, Panic("qemu-system-x86_64 spawn unwrap"))
    /\ UNCHANGED <<env, fs, imgJobs, cmd, listed, removed, vmArgs, vmExit,
                   started, synVars>>

\* run: wait() returns the hypervisor's exit status, which is dropped, and
\* machine returns Ok(()).
RunWait(p) ==
    /\ pc[p] = "run_wait"
    /\ \E code \in ExitCodes :
         /\ vmExit' = [vmExit EXCEPT ![p] = Some(code)]
         /\ Return(p, Ok)
    /\ UNCHANGED <<env, fs, imgJobs, cmd, listed, removed, vmArgs, started,
                   synVars>>

\* remove --yes: one step of std::fs::remove_dir_all, which unlinks the
\* directory's files one by one in the order read_dir yields them and then
\* removes the directory; its error (the directory is not there) is
\* unwrapped.
RemoveDirAll(p) ==
    /\ pc[p] = "remove_dir_all"
    /\ LET name == cmd[p].name
       IN  IF fs[name].kind # "dir"
           THEN /\ Return(p, Panic("remove_dir_all unwrap"))
                /\ UNCHANGED <<fs, removed>>
           ELSE IF DOMAIN fs[name].files # {}
           THEN /\ \E f \in DOMAIN fs[name].files :
                     /\ fs' = [fs EXCEPT ![name].files = Unlink(@, f)]
                     /\ removed' = [removed EXCEPT ![p] = @ \cup {f}]
                /\ UNCHANGED <<pc, res>>
           ELSE /\ fs' = [fs EXCEPT ![name] = Absent]
                /\ Return(p, Ok)
                /\ UNCHANGED removed
    /\ UNCHANGED <<env, imgJobs, cmd, listed, vmArgs, vmExit, started, synVars>>

\* edit: the external editor leaves a document in the machine's machine.toml.
Edit(name, doc) ==
    /\ started < MaxOps
    /\ started' = started + 1
    /\ fs[name].kind = "dir"
    /\ ConfigFile \in DOMAIN fs[name].files
    /\ fs' = [fs EXCEPT ![name].files = WriteFile(@, ConfigFile, doc)]
    /\ UNCHANGED <<env, imgJobs, pc, cmd, res, listed, removed, vmArgs, vmExit,
                   synVars>>

\* ------------------------------------------------------- the specifications

\* A machine as a new_machine that ran to its end, and its qemu-img, leave it.
Created(disk_size) ==
    [kind |-> "dir",
     files |-> WriteFile(WriteFile(NoFiles, ConfigFile, ToToml(DefaultConfig)),
                         DiskFile, disk_size)]

\* The machines directories the program may be started on: each name is
\* free, a plain file, or a machine created earlier.
InitialRoots == [Names -> {Absent, PlainFile, Created(2048)}]

RegInit ==
    /\ env \in {"ok", "nohome", "noroot"}
    /\ fs \in InitialRoots
    /\ env # "ok" => fs = [n \in Names |-> Absent]
    /\ env = "ok" => Cardinality({n \in Names : fs[n] = PlainFile}) <= 1
    /\ imgJobs = {}
    /\ pc = [p \in Procs |-> "idle"]
    /\ cmd = [p \in Procs |-> NoCommand]
    /\ res = [p \in Procs |-> NoResult]
    /\ listed = [p \in Procs |-> <<>>]
    /\ removed = [p \in Procs |-> {}]
    /\ vmArgs = [p \in Procs |-> <<>>]
    /\ vmExit = [p \in Procs |-> None]
    /\ started = 0

SynIdle ==
    /\ synConfig = DefaultConfig
    /\ synDir = MachinesDir
    /\ synCdRom = None
    /\ synArgs = None

Init == RegInit /\ SynIdle

\* The steps of an invocation once started, and of the processes it spawned.
Step ==
    \/ \E p \in Procs : Ls(p)
    \/ \E p \in Procs : NewScan(p)
    \/ \E p \in Procs : NewMkdir(p)
    \/ \E p \in Procs : NewWrite(p)
    \/ \E p \in Procs : NewSpawn(p)
    \/ \E job \in imgJobs : QemuImg(job)
    \/ \E p \in Procs : Machine(p)
    \/ \E p \in Procs : RunSpawn(p)
    \/ \E p \in Procs : RunWait(p)
    \/ \E p \in Procs : RemoveDirAll(p)

LifecycleNext ==
    \/ \E p \in Procs, c \in Commands : Start(p, c)
    \/ Step

Next ==
    \/ LifecycleNext
    \/ \E name \in Names, doc \in EditedDocs : Edit(name, doc)

\* Invocations of every command, interleaved, and external edits.
Spec == Init /\ [][Next]_vars

\* The same without the external editor.
LifecycleSpec == Init /\ [][LifecycleNext]_vars

\* Invocations of new only, interleaved, and the qemu-img processes they
\* spawn.
CreateNext ==
    \/ \E p \in Procs, c \in Commands : c.op = "new" /\ Start(p, c)
    \/ \E p \in Procs : NewScan(p)
    \/ \E p \in Procs : NewMkdir(p)
    \/ \E p \in Procs : NewWrite(p)
    \/ \E p \in Procs : NewSpawn(p)
    \/ \E job \in imgJobs : QemuImg(job)

CreateSpec == Init /\ [][CreateNext]_vars

\* Command synthesis on its own: construct_launch_command applied to every
\* configuration, directory and CD-ROM image of SynConfigs, SynDirs, SynCdRoms.
SynConfigs ==
    {[machine |-> [disk |-> d, cpus |-> DefaultCpus, memory |-> DefaultMemory,
                   kvm |-> k, uefi |-> u, video |-> v]] :
        d \in {<<".", "disk.qcow2">>, <<"disk.qcow2">>, <<"/", "srv", "img.qcow2">>},
        k \in BOOLEAN, u \in BOOLEAN, v \in VideoOption}

SynDirs == {MachinePath(n) : n \in Names}

SynCdRoms == {None, Some(<<"/", "iso", "install.iso">>), Some(<<"install.iso">>)}

SynInit ==
    /\ RegInit
    /\ env = "ok"
    /\ fs = [n \in Names |-> Absent]
    /\ synConfig \in SynConfigs
    /\ synDir \in SynDirs
    /\ synCdRom \in SynCdRoms
    /\ synArgs = None

Synthesize ==
    /\ synArgs = None
    /\ synArgs' = Some(ConstructLaunchCommand(synConfig, synDir, synCdRom))
    /\ UNCHANGED <<regVars, synConfig, synDir, synCdRom>>

SynthSpec == SynInit /\ [][Synthesize]_vars

\* ------------------------------------------------------------------ claims

\* What get_machines returns in the file system f, when the scan order does
\* not matter to it: the names every scan lists.
ListedIn(f) ==
    {n \in Names :
        \A order \in ScanOrders(f) :
            /\ GetMachines(f, order).result = Ok
            /\ n \in Range(MachineNames(GetMachines(f, order).machines))}

HasFile(f, name, file) == f[name].kind = "dir" /\ file \in DOMAIN f[name].files

\* The subdirectories whose machine.toml exists and does not parse.
BadConfigs(f) ==
    {n \in Names :
        HasFile(f, n, ConfigFile) /\ ~TomlParses(f[n].files[ConfigFile])}

\* A subdirectory with no machine.toml.
Orphan(f, name) == f[name].kind = "dir" /\ ConfigFile \notin DOMAIN f[name].files

NameConflictErrors == {"NewMachineDirectoryExists", "CreateMachineDirectoryFail"}

\* C1: of two invocations of new with the same name that have both returned,
\* at most one returned Ok, and when one did the other returned an error
\* (the directory exists, or could not be created).
C1_AtMostOneCreateSucceeds ==
    \A p, q \in Procs :
        (/\ p # q
         /\ pc[p] = "done" /\ pc[q] = "done"
         /\ cmd[p].op = "new" /\ cmd[q].op = "new"
         /\ cmd[p].name = cmd[q].name
         /\ res[p] = Ok)
        => res[q].tag \in NameConflictErrors

\* C1's case: both invocations passed the scan before either made the
\* directory, one returned Ok and the other failed at create_dir.
C1_Witness ==
    \E p, q \in Procs :
        /\ p # q
        /\ pc[p] = "done" /\ pc[q] = "done"
        /\ cmd[p].op = "new" /\ cmd[q].op = "new"
        /\ cmd[p].name = cmd[q].name
        /\ res[p] = Ok
        /\ res[q] = Err("CreateMachineDirectoryFail")

\* C2: once new has returned Ok, the qemu-img it spawned has finished and the
\* machine's disk image exists.
C2_CreateWaitsForDisk ==
    \A p \in Procs :
        (pc[p] = "done" /\ cmd[p].op = "new" /\ res[p] = Ok)
        => /\ ImgJob(cmd[p]) \notin imgJobs
           /\ HasFile(fs, cmd[p].name, DiskFile)

\* C3: while remove --yes has unlinked part of a machine's directory, no
\* get_machines lists the machine.
C3_RemoveIsAtomic ==
    \A p \in Procs :
        (pc[p] = "remove_dir_all" /\ removed[p] # {})
        => \A order \in ScanOrders(fs) :
              cmd[p].name \notin
                  Range(MachineNames(GetMachines(fs, order).machines))

\* C4: remove without --yes of a machine the registry lists changes nothing
\* in the file system and returns Ok with the warning naming the directory,
\* and the registry still lists the machine.
C4_UnconfirmedRemoveKeeps ==
    [][\A p \in Procs :
          (/\ pc[p] = "machine" /\ pc'[p] # "machine"
           /\ cmd[p].op = "remove" /\ ~cmd[p].yes
           /\ cmd[p].name \in ListedIn(fs))
          => /\ fs' = fs
             /\ pc'[p] = "done"
             /\ res'[p] = Warned(MachinePath(cmd[p].name))
             /\ cmd[p].name \in ListedIn(fs')
             /\ HasFile(fs', cmd[p].name, ConfigFile)]_vars

\* C4's case: an unconfirmed remove has returned and the machine's config
\* and disk image are there.
C4_Witness ==
    \E p \in Procs :
        /\ pc[p] = "done" /\ cmd[p].op = "remove" /\ ~cmd[p].yes
        /\ res[p].tag = "Ok"
        /\ HasFile(fs, cmd[p].name, ConfigFile)
        /\ HasFile(fs, cmd[p].name, DiskFile)

\* C5: new on a name that an entry of the machines directory has when new
\* scans it, whatever the entry is, returns NewMachineDirectoryExists and
\* changes nothing in the file system.
C5_CreateOnTakenName ==
    [][\A p \in Procs :
          (/\ pc[p] = "new_scan" /\ pc'[p] # "new_scan"
           /\ cmd[p].name \in Entries(fs))
          => /\ pc'[p] = "done"
             /\ res'[p] = Err("NewMachineDirectoryExists")
             /\ fs' = fs]_vars

\* C5's case: new has failed on a name taken by a directory that holds no
\* machine.toml, and beside it on a name taken by a machine with its disk.
C5_Witness ==
    \E p, q \in Procs :
        /\ pc[p] = "done" /\ cmd[p].op = "new"
        /\ res[p] = Err("NewMachineDirectoryExists")
        /\ Orphan(fs, cmd[p].name)
        /\ pc[q] = "done" /\ cmd[q].op = "new"
        /\ res[q] = Err("NewMachineDirectoryExists")
        /\ HasFile(fs, cmd[q].name, ConfigFile)
        /\ HasFile(fs, cmd[q].name, DiskFile)

\* The expected failure of the step invocation p is about to take: the
\* machines directory cannot be read, a machine.toml does not parse, the name
\* of new is taken, the name of run or remove is no machine, or remove has no
\* --yes.
ExpectedFailure(p) ==
    \/ env = "noroot"
    \/ /\ env = "ok"
       /\ \/ BadConfigs(fs) # {}
          \/ cmd[p].op = "new" /\ cmd[p].name \in Entries(fs)
          \/ cmd[p].op \in {"run", "remove"} /\ cmd[p].name \notin ListedIn(fs)
          \/ cmd[p].op = "remove" /\ ~cmd[p].yes

\* C6: an invocation that meets an expected failure returns it as a value:
\* it does not panic.
C6_ExpectedFailuresAreValues ==
    [][\A p \in Procs :
          (/\ pc[p] \in {"ls", "new_scan", "machine"}
           /\ pc'[p] = "done"
           /\ ExpectedFailure(p))
          => res'[p].tag # "panic"]_vars

\* C7: when some subdirectory's machine.toml exists and does not parse, ls
\* returns Error::Deserialize with the path of such a file and lists nothing,
\* whatever the scan order and the other subdirectories.
C7_ListFailsFast ==
    [][\A p \in Procs :
          (pc[p] = "ls" /\ pc'[p] # "ls" /\ BadConfigs(fs) # {})
          => /\ pc'[p] = "done"
             /\ listed'[p] = <<>>
             /\ \E n \in BadConfigs(fs) :
                   res'[p] =
                     Deserialize(Join(MachinePath(n), <<ConfigFile>>))]_vars

\* C7's case: ls has failed on a machine.toml with a key outside the schema
\* while another subdirectory holds a machine.toml that parses.
C7_Witness ==
    \E p \in Procs, n, m \in Names :
        /\ pc[p] = "done" /\ cmd[p].op = "ls"
        /\ res[p] = Deserialize(Join(MachinePath(n), <<ConfigFile>>))
        /\ HasFile(fs, n, ConfigFile)
        /\ "gpu" \in DOMAIN fs[n].files[ConfigFile].machine
        /\ HasFile(fs, m, ConfigFile)
        /\ TomlParses(fs[m].files[ConfigFile])

\* The text of the disk path the hypervisor is to boot from: the declared
\* path when it starts at the root, otherwise the directory's text, "/" and
\* the declared path.
ResolvedDisk(config, dir) ==
    IF config.machine.disk[1] = "/" THEN ToStringLossy(config.machine.disk)
    ELSE ToStringLossy(dir) \o "/" \o ToStringLossy(config.machine.disk)

\* C8: the last argument construct_launch_command yields is the resolved
\* disk path, whatever the flags and the CD-ROM image.
C8_DiskIsLastArgument ==
    synArgs # None
    => synArgs[1][Len(synArgs[1])] = ResolvedDisk(synConfig, synDir)

\* C8's case: every optional argument is there (kvm, uefi, no video, a
\* CD-ROM image) before a relative disk path.
C8_Witness ==
    /\ synArgs # None
    /\ synConfig.machine.kvm /\ synConfig.machine.uefi
    /\ synConfig.machine.video = "None"
    /\ synCdRom # None
    /\ ~IsAbsolute(synConfig.machine.disk)
    /\ Len(synArgs[1]) = 15

\* C9: a run that has returned after building its command returns
\* SpawnFailed when the hypervisor could not be spawned, and otherwise Ok
\* together with the exit code wait() gave.
C9_RunReturnsExitCode ==
    \A p \in Procs :
        (pc[p] = "done" /\ cmd[p].op = "run" /\ vmArgs[p] # <<>>)
        => IF vmExit[p] = None THEN res[p].tag = "SpawnFailed"
           ELSE res[p] = [tag |-> "Ok", detail |-> ToString(vmExit[p][1])]

\* C10: every name ls or machine gets from get_machines is a subdirectory
\* whose machine.toml parses; on the name of a subdirectory without
\* machine.toml, run and remove return NoMachineByName and new returns
\* NewMachineDirectoryExists.
C10_OnlyMachinesAreListed ==
    [][\A p \in Procs :
          /\ (pc[p] \in {"ls", "machine"} /\ pc'[p] # pc[p])
             => \A n \in Range(listed'[p]) :
                   /\ HasFile(fs, n, ConfigFile)
                   /\ TomlParses(fs[n].files[ConfigFile])
          /\ (pc[p] = "machine" /\ pc'[p] # "machine" /\ Orphan(fs, cmd[p].name))
             => pc'[p] = "done" /\ res'[p] = Err("NoMachineByName")
          /\ (pc[p] = "new_scan" /\ pc'[p] # "new_scan" /\ Orphan(fs, cmd[p].name))
             => pc'[p] = "done" /\ res'[p] = Err("NewMachineDirectoryExists")
      ]_vars

\* C10's case: a new failed at the write of machine.toml after it made the
\* directory, and a run or remove on that name has returned NoMachineByName.
C10_Witness ==
    \E p, q \in Procs :
        /\ pc[p] = "done" /\ cmd[p].op = "new"
        /\ res[p] = Err("WriteMachineTomlFail")
        /\ Orphan(fs, cmd[p].name)
        /\ pc[q] = "done" /\ cmd[q].op \in {"run", "remove"}
        /\ cmd[q].name = cmd[p].name
        /\ res[q] = Err("NoMachineByName")

====
